---- MODULE Spec2Model ----
(***************************************************************************)
(* A model of the Blockchain class of src/src/blockchain.js: the in-memory *)
(* chain of blocks, the append path (_addBlock, submitStar), the chain     *)
(* validator and the promise each method hands to its caller.              *)
(*                                                                         *)
(* Every method builds its promise in an executor that runs synchronously  *)
(* up to its first await, and every write to this.chain / this.height      *)
(* happens before that await, so one action is one call of a method.  A    *)
(* promise is settled by the first resolve/reject that reaches it; later   *)
(* ones are ignored (Settle).                                              *)
(***************************************************************************)
EXTENDS Integers, Sequences, FiniteSets, TLC

VARIABLES chain, height, now, call, result, tampered, procs

vars == <<chain, height, now, call, result, tampered, procs>>

(***************************************************************************)
(* Bounds of the model.                                                    *)
(***************************************************************************)
MaxChain == 3
MaxTime == 301
MaxTamper == 1
MaxProcs == 2

(***************************************************************************)
(* Program constants and input domains.                                    *)
(***************************************************************************)
Window == 300

Null == <<>>

Addresses == {"addr1", "addr2"}
Stars == {"star1"}
MsgTimes == {0, 1}
ClockTimes == {0, Window, MaxTime}

(***************************************************************************)
(* External collaborators: the hash function, the payload encoding and the *)
(* signature verifier.  The digest is an injective function of the content *)
(* it is given (collision resistance).                                     *)
(***************************************************************************)
SHA256(content) == <<"sha256", content>>

Encode(data) == <<"hex", data>>

Decode(body) == body[2]

Sign(address, message) == <<"sig", address, message>>

BadSignature(message) == <<"sig", "nobody", message>>

MalformedSignature == <<"short">>

VerifyThrows(signature) == Len(signature) # 3

Verify(message, address, signature) == signature = Sign(address, message)

(***************************************************************************)
(* block.js: the Block class.                                              *)
(***************************************************************************)
NewBlock(data) ==
  [hash |-> Null, height |-> 0, body |-> Encode(data), time |-> 0,
   previousBlockHash |-> Null]

Validate(block) == SHA256([block EXCEPT !.hash = Null]) = block.hash

NoBlock ==
  [hash |-> Null, height |-> -1, body |-> Null, time |-> -1,
   previousBlockHash |-> Null]

(***************************************************************************)
(* Promises.  An outcome is what the caller of a method receives.          *)
(***************************************************************************)
Outcome(status, kind) ==
  [status |-> status, kind |-> kind, block |-> NoBlock, log |-> <<>>,
   num |-> 0, msg |-> Null, stars |-> <<>>]

Pending == Outcome("pending", "none")

ResolveBlock(block) == [Outcome("resolved", "block") EXCEPT !.block = block]

ResolveLog(errorLog) == [Outcome("resolved", "errorLog") EXCEPT !.log = errorLog]

ResolveNum(n) == [Outcome("resolved", "number") EXCEPT !.num = n]

ResolveMsg(m) == [Outcome("resolved", "message") EXCEPT !.msg = m]

ResolveStars(stars) == [Outcome("resolved", "stars") EXCEPT !.stars = stars]

ResolveNull == Outcome("resolved", "null")

ResolveNothing == Outcome("resolved", "undefined")

Reject(kind) == Outcome("rejected", kind)

RejectLog(errorLog) == [Outcome("rejected", "errorLog") EXCEPT !.log = errorLog]

Settle_LastWins(promise, outcome) == outcome

Settle(promise, outcome) ==
  IF promise.status = "pending" THEN outcome ELSE promise

(***************************************************************************)
(* requestMessageOwnershipVerification: "<address>:<seconds>:starRegistry" *)
(* kept as the list of its colon-separated fields.                         *)
(***************************************************************************)
Message(address, t) == <<address, t, "starRegistry">>

MessageTime(message) == message[2]

(***************************************************************************)
(* validateChain                                                           *)
(***************************************************************************)
NotValid(h) == <<"NotValid", h>>

ChainBroken(h) == <<"ChainBroken", h>>

RECURSIVE FindByHash(_, _, _)
FindByHash(c, hash, i) ==
  IF i > Len(c) THEN 0
  ELSE IF c[i].hash = hash THEN i
  ELSE FindByHash(c, hash, i + 1)

isNextBlock(c, block) ==
  LET j == FindByHash(c, block.previousBlockHash, 1)
  IN  j # 0 /\ c[j].height = block.height - 1

RECURSIVE validateEach(_, _, _)
validateEach(c, i, errorLog) ==
  IF i > Len(c) THEN ResolveLog(errorLog)
  ELSE LET block == c[i] IN
       IF ~Validate(block) THEN Reject("ReferenceError")
       ELSE IF block.height = 0 THEN validateEach(c, i + 1, errorLog)
       ELSE IF ~isNextBlock(c, block)
            THEN validateEach(c, i + 1, Append(errorLog, ChainBroken(block.height)))
            ELSE validateEach(c, i + 1, errorLog)

validateChain(c) == validateEach(c, 1, <<>>)

(***************************************************************************)
(* _addBlock                                                               *)
(***************************************************************************)
addBlockSettle_ResolveFirst(validateErrors, block) ==
  IF validateErrors.status = "rejected"
  THEN Settle(Pending, validateErrors)
  ELSE LET p1 == Settle(Pending, ResolveBlock(block))
       IN  IF Len(validateErrors.log) > 0
           THEN Settle(p1, RejectLog(validateErrors.log))
           ELSE p1

addBlockSettle(validateErrors, block) ==
  IF validateErrors.status = "rejected"
  THEN Settle(Pending, validateErrors)
  ELSE LET p1 == IF Len(validateErrors.log) > 0
                 THEN Settle(Pending, RejectLog(validateErrors.log))
                 ELSE Pending
       IN  Settle(p1, ResolveBlock(block))

addBlock_NoLink(c, h, block, t) ==
  LET newBlockHeight == h + 1
      b2 == [block EXCEPT !.height = newBlockHeight]
      b3 == [b2 EXCEPT !.time = t]
      b4 == [b3 EXCEPT !.hash = SHA256(b3)]
      c2 == Append(c, b4)
  IN  [chain |-> c2, height |-> newBlockHeight,
       promise |-> addBlockSettle(validateChain(c2), b4)]

addBlock_HashBeforeTime(c, h, block, t) ==
  LET b1 == IF Len(c) > 0
            THEN [block EXCEPT !.previousBlockHash = c[h + 1].hash]
            ELSE block
      newBlockHeight == h + 1
      b2 == [b1 EXCEPT !.height = newBlockHeight]
      b3 == [b2 EXCEPT !.hash = SHA256(b2)]
      b4 == [b3 EXCEPT !.time = t]
      c2 == Append(c, b4)
  IN  [chain |-> c2, height |-> newBlockHeight,
       promise |-> addBlockSettle(validateChain(c2), b4)]

addBlock_HeightNotStored(c, h, block, t) ==
  LET b1 == IF Len(c) > 0
            THEN [block EXCEPT !.previousBlockHash = c[h + 1].hash]
            ELSE block
      newBlockHeight == h + 1
      b2 == [b1 EXCEPT !.height = newBlockHeight]
      b3 == [b2 EXCEPT !.time = t]
      b4 == [b3 EXCEPT !.hash = SHA256(b3)]
      c2 == Append(c, b4)
  IN  [chain |-> c2, height |-> IF Len(c) > 0 THEN h ELSE newBlockHeight,
       promise |-> addBlockSettle(validateChain(c2), b4)]

addBlock_Prepend(c, h, block, t) ==
  LET b1 == IF Len(c) > 0
            THEN [block EXCEPT !.previousBlockHash = c[h + 1].hash]
            ELSE block
      newBlockHeight == h + 1
      b2 == [b1 EXCEPT !.height = newBlockHeight]
      b3 == [b2 EXCEPT !.time = t]
      b4 == [b3 EXCEPT !.hash = SHA256(b3)]
      c2 == <<b4>> \o c
  IN  [chain |-> c2, height |-> newBlockHeight,
       promise |-> addBlockSettle(validateChain(c2), b4)]

addBlock_HashBeforeLink(c, h, block, t) ==
  LET newBlockHeight == h + 1
      b1 == [block EXCEPT !.height = newBlockHeight]
      b2 == [b1 EXCEPT !.time = t]
      b3 == [b2 EXCEPT !.hash = SHA256(b2)]
      b4 == IF Len(c) > 0
            THEN [b3 EXCEPT !.previousBlockHash = c[h + 1].hash]
            ELSE b3
      c2 == Append(c, b4)
  IN  [chain |-> c2, height |-> newBlockHeight,
       promise |-> addBlockSettle(validateChain(c2), b4)]

addBlock_Rollback(c, h, block, t) ==
  LET b1 == IF Len(c) > 0
            THEN [block EXCEPT !.previousBlockHash = c[h + 1].hash]
            ELSE block
      newBlockHeight == h + 1
      b2 == [b1 EXCEPT !.height = newBlockHeight]
      b3 == [b2 EXCEPT !.time = t]
      b4 == [b3 EXCEPT !.hash = SHA256(b3)]
      c2 == Append(c, b4)
      promise == addBlockSettle(validateChain(c2), b4)
  IN  IF promise.status = "rejected"
      THEN [chain |-> c, height |-> h, promise |-> promise]
      ELSE [chain |-> c2, height |-> newBlockHeight, promise |-> promise]

addBlock(c, h, block, t) ==
  LET b1 == IF Len(c) > 0
            THEN [block EXCEPT !.previousBlockHash = c[h + 1].hash]
            ELSE block
      newBlockHeight == h + 1
      b2 == [b1 EXCEPT !.height = newBlockHeight]
      b3 == [b2 EXCEPT !.time = t]
      b4 == [b3 EXCEPT !.hash = SHA256(b3)]
      c2 == Append(c, b4)
  IN  [chain |-> c2, height |-> newBlockHeight,
       promise |-> addBlockSettle(validateChain(c2), b4)]

(***************************************************************************)
(* submitStar                                                              *)
(***************************************************************************)
StarData(address, message, signature, star) ==
  [address |-> address, message |-> message, signature |-> signature,
   star |-> star]

Expired_Inclusive(message, currentTime) ==
  currentTime - MessageTime(message) >= Window

Expired_EitherSide(message, currentTime) ==
  \/ currentTime - MessageTime(message) >= Window
  \/ MessageTime(message) - currentTime > 0

Expired(message, currentTime) == currentTime - MessageTime(message) > Window

submitStar_NoSignatureCheck(c, h, address, message, signature, star, currentTime) ==
  LET p1 == IF Expired(message, currentTime)
            THEN Settle(Pending, Reject("ExpiredRequest"))
            ELSE Pending
  IN  IF VerifyThrows(signature)
      THEN [chain |-> c, height |-> h,
            promise |-> Settle(p1, Reject("VerifyError"))]
      ELSE LET r == addBlock(c, h, NewBlock(StarData(address, message, signature, star)),
                             currentTime)
           IN  [chain |-> r.chain, height |-> r.height,
                promise |-> Settle(p1, r.promise)]

submitStar(c, h, address, message, signature, star, currentTime) ==
  LET p1 == IF Expired(message, currentTime)
            THEN Settle(Pending, Reject("ExpiredRequest"))
            ELSE Pending
  IN  IF VerifyThrows(signature)
      THEN [chain |-> c, height |-> h,
            promise |-> Settle(p1, Reject("VerifyError"))]
      ELSE LET p2 == IF ~Verify(message, address, signature)
                     THEN Settle(p1, Reject("InvalidSignature"))
                     ELSE p1
               r == addBlock(c, h, NewBlock(StarData(address, message, signature, star)),
                             currentTime)
           IN  [chain |-> r.chain, height |-> r.height,
                promise |-> Settle(p2, r.promise)]

(***************************************************************************)
(* constructor / initializeChain                                           *)
(***************************************************************************)
GenesisData == [data |-> "Genesis Block"]

initializeChain(c, h, t) ==
  IF h = -1
  THEN LET r == addBlock(c, h, NewBlock(GenesisData), t)
       IN  [chain |-> r.chain, height |-> r.height]
  ELSE [chain |-> c, height |-> h]

constructor_HeightZero(t) == initializeChain(<<>>, 0, t)

constructor(t) == initializeChain(<<>>, -1, t)

(***************************************************************************)
(* getBlockByHash, getBlockByHeight                                        *)
(***************************************************************************)
RECURSIVE FindByHeight(_, _, _)
FindByHeight(c, h, i) ==
  IF i > Len(c) THEN 0
  ELSE IF c[i].height = h THEN i
  ELSE FindByHeight(c, h, i + 1)

getBlockByHash_RejectFirst(c, hash) ==
  LET j == FindByHash(c, hash, 1)
      p1 == Settle(Pending, Reject("NotFound"))
  IN  IF j # 0 THEN Settle(p1, ResolveBlock(c[j])) ELSE p1

getBlockByHash(c, hash) ==
  LET j == FindByHash(c, hash, 1)
      p1 == IF j # 0 THEN Settle(Pending, ResolveBlock(c[j])) ELSE Pending
  IN  Settle(p1, Reject("NotFound"))

getBlockByHeight_RejectsMiss(c, h) ==
  LET j == FindByHeight(c, h, 1)
  IN  IF j # 0 THEN ResolveBlock(c[j]) ELSE Reject("NotFound")

getBlockByHeight(c, h) ==
  LET j == FindByHeight(c, h, 1)
  IN  IF j # 0 THEN ResolveBlock(c[j]) ELSE ResolveNull

(***************************************************************************)
(* The statements of a call, and a call's run up to its next await.        *)
(***************************************************************************)
NoProc ==
  [op |-> "none", pc |-> "done", address |-> "", message |-> Null,
   signature |-> Null, star |-> "", data |-> Null, snapChain |-> <<>>,
   snapHeight |-> -1, block |-> NoBlock, committed |-> FALSE,
   validateErrors |-> Pending, inner |-> Pending, promise |-> Pending,
   stars |-> <<>>, decoded |-> 0]

HasAddress(data) == "address" \in DOMAIN data

starsPush(stars, block, address) ==
  LET blockBody == Decode(block.body)
  IN  IF HasAddress(blockBody) /\ blockBody.address = address
      THEN Append(stars, [owner |-> address, star |-> blockBody.star])
      ELSE stars

buildBlock(c, h, block, t) ==
  LET b1 == IF Len(c) > 0
            THEN [block EXCEPT !.previousBlockHash = c[h + 1].hash]
            ELSE block
      b2 == [b1 EXCEPT !.height = h + 1]
      b3 == [b2 EXCEPT !.time = t]
  IN  [b3 EXCEPT !.hash = SHA256(b3)]

YieldsAfter_AwaitBeforeCommit(pc) ==
  pc \in {"read", "validate", "settle", "forEach", "decode"}

YieldsAfter(pc) == pc \in {"validate", "settle", "forEach", "decode"}

Exec(st, i, t) ==
  LET p == st.procs[i] IN
  CASE p.pc = "check" ->
         LET p1 == IF Expired(p.message, t)
                   THEN Settle(Pending, Reject("ExpiredRequest"))
                   ELSE Pending
         IN  IF VerifyThrows(p.signature)
             THEN [st EXCEPT !.procs[i].promise = Settle(p1, Reject("VerifyError")),
                             !.procs[i].pc = "done"]
             ELSE [st EXCEPT !.procs[i].promise =
                               IF ~Verify(p.message, p.address, p.signature)
                               THEN Settle(p1, Reject("InvalidSignature"))
                               ELSE p1,
                             !.procs[i].data =
                               StarData(p.address, p.message, p.signature, p.star),
                             !.procs[i].pc = "read"]
    [] p.pc = "read" ->
         [st EXCEPT !.procs[i].snapChain = st.chain,
                    !.procs[i].snapHeight = st.height,
                    !.procs[i].block =
                      buildBlock(st.chain, st.height, NewBlock(p.data), t),
                    !.procs[i].pc = "commit"]
    [] p.pc = "commit" ->
         [st EXCEPT !.height = p.snapHeight + 1,
                    !.chain = Append(p.snapChain, p.block),
                    !.procs[i].committed = TRUE,
                    !.procs[i].pc = "validate"]
    [] p.pc = "validate" ->
         [st EXCEPT !.procs[i].validateErrors = validateChain(st.chain),
                    !.procs[i].pc = "settle"]
    [] p.pc = "settle" ->
         LET inner == addBlockSettle(p.validateErrors, p.block)
         IN  IF p.op = "addBlock"
             THEN [st EXCEPT !.procs[i].promise = inner, !.procs[i].pc = "done"]
             ELSE [st EXCEPT !.procs[i].inner = inner, !.procs[i].pc = "resume"]
    [] p.pc = "resume" ->
         [st EXCEPT !.procs[i].promise = Settle(p.promise, p.inner),
                    !.procs[i].pc = "done"]
    [] p.pc = "forEach" ->
         [st EXCEPT !.procs[i].snapChain = st.chain,
                    !.procs[i].promise = ResolveStars(p.stars),
                    !.procs[i].pc = IF Len(st.chain) = 0 THEN "done" ELSE "decode"]
    [] p.pc = "decode" ->
         [st EXCEPT !.procs[i].stars =
                      starsPush(p.stars, p.snapChain[p.decoded + 1], p.address),
                    !.procs[i].decoded = p.decoded + 1,
                    !.procs[i].pc = IF p.decoded + 1 = Len(p.snapChain)
                                    THEN "done" ELSE "decode"]
    [] OTHER -> st

RECURSIVE Run(_, _, _)
Run(st, i, t) ==
  LET next == Exec(st, i, t)
  IN  IF next.procs[i].pc = "done" \/ YieldsAfter(st.procs[i].pc)
      THEN next
      ELSE Run(next, i, t)

(***************************************************************************)
(* getStarsByWalletAddress: the promise as it is when the call returns.    *)
(***************************************************************************)
getStarsByWalletAddress(c, h, address, t) ==
  Run([chain |-> c, height |-> h,
       procs |-> <<[NoProc EXCEPT !.op = "getStarsByWalletAddress",
                                  !.pc = "forEach", !.address = address]>>],
      1, t).procs[1].promise

(***************************************************************************)
(* The state machine.                                                      *)
(***************************************************************************)
NoCall == [op |-> "none", address |-> "", message |-> Null, signature |-> Null,
           star |-> "", time |-> 0, data |-> Null, hash |-> Null, num |-> 0]

Call(op) == [NoCall EXCEPT !.op = op, !.time = now]

Init ==
  /\ now = 0
  /\ chain = constructor(0).chain
  /\ height = constructor(0).height
  /\ call = NoCall
  /\ result = Pending
  /\ tampered = 0
  /\ procs = <<>>

Tick ==
  /\ \E t \in ClockTimes :
       /\ t > now
       /\ now' = t
  /\ UNCHANGED <<chain, height, call, result, tampered, procs>>

InitializeChain ==
  /\ LET r == initializeChain(chain, height, now)
     IN  /\ chain' = r.chain
         /\ height' = r.height
  /\ call' = Call("initializeChain")
  /\ result' = ResolveNothing
  /\ UNCHANGED <<now, tampered, procs>>

GetChainHeight ==
  /\ call' = Call("getChainHeight")
  /\ result' = ResolveNum(height)
  /\ UNCHANGED <<chain, height, now, tampered, procs>>

RequestMessageOwnershipVerification ==
  \E address \in Addresses :
    /\ call' = [Call("requestMessageOwnershipVerification") EXCEPT !.address = address]
    /\ result' = ResolveMsg(Message(address, now))
    /\ UNCHANGED <<chain, height, now, tampered, procs>>

AddBlockData == {GenesisData}

AddBlock(data) ==
  /\ Len(chain) < MaxChain
  /\ LET r == addBlock(chain, height, NewBlock(data), now)
     IN  /\ chain' = r.chain
         /\ height' = r.height
         /\ result' = r.promise
  /\ call' = [Call("addBlock") EXCEPT !.data = data]
  /\ UNCHANGED <<now, tampered, procs>>

SignaturesFor(address, message) ==
  {Sign(address, message), BadSignature(message), MalformedSignature}

SubmitStar(address, message, signature, star) ==
  /\ Len(chain) < MaxChain
  /\ LET r == submitStar(chain, height, address, message, signature, star, now)
     IN  /\ chain' = r.chain
         /\ height' = r.height
         /\ result' = r.promise
  /\ call' = [Call("submitStar") EXCEPT !.address = address, !.message = message,
                                        !.signature = signature, !.star = star]
  /\ UNCHANGED <<now, tampered, procs>>

RECURSIVE ValidPrefix(_, _)
ValidPrefix(c, i) ==
  IF i > Len(c) \/ ~Validate(c[i]) THEN SubSeq(c, 1, i - 1)
  ELSE ValidPrefix(c, i + 1)

ValidateChain_Repairs ==
  /\ call' = Call("validateChain")
  /\ result' = validateChain(chain)
  /\ chain' = ValidPrefix(chain, 1)
  /\ height' = Len(ValidPrefix(chain, 1)) - 1
  /\ UNCHANGED <<now, tampered, procs>>

ValidateChain ==
  /\ call' = Call("validateChain")
  /\ result' = validateChain(chain)
  /\ UNCHANGED <<chain, height, now, tampered, procs>>

HashInputs == {chain[i].hash : i \in 1..Len(chain)} \cup {SHA256(NoBlock)}

HeightInputs == -1..MaxChain

GetBlockByHash(hash) ==
  /\ call' = [NoCall EXCEPT !.op = "getBlockByHash", !.hash = hash]
  /\ result' = getBlockByHash(chain, hash)
  /\ UNCHANGED <<chain, height, now, tampered, procs>>

GetBlockByHeight(h) ==
  /\ call' = [NoCall EXCEPT !.op = "getBlockByHeight", !.num = h]
  /\ result' = getBlockByHeight(chain, h)
  /\ UNCHANGED <<chain, height, now, tampered, procs>>

GetStarsByWalletAddress(address) ==
  /\ call' = [NoCall EXCEPT !.op = "getStarsByWalletAddress", !.address = address]
  /\ result' = getStarsByWalletAddress(chain, height, address, now)
  /\ UNCHANGED <<chain, height, now, tampered, procs>>

SubmitInputs ==
  UNION {{<<x[1], Message(x[1], x[2]), signature, x[3]>> :
            signature \in SignaturesFor(x[1], Message(x[1], x[2]))} :
         x \in Addresses \X MsgTimes \X Stars}

Next ==
  \/ Tick
  \/ InitializeChain
  \/ GetChainHeight
  \/ RequestMessageOwnershipVerification
  \/ \E data \in AddBlockData : AddBlock(data)
  \/ \E in \in SubmitInputs : SubmitStar(in[1], in[2], in[3], in[4])
  \/ ValidateChain

Spec == Init /\ [][Next]_vars

(***************************************************************************)
(* Outside tampering: this.chain is a public field, so code outside the    *)
(* class can rewrite a committed block.  TamperBody changes a payload and  *)
(* leaves the stored hash; TamperRehash changes a payload and recomputes   *)
(* the hash the way _addBlock computes it.                                 *)
(***************************************************************************)
TamperedData == [data |-> "tampered"]

Rehash(block) == [block EXCEPT !.hash = SHA256([block EXCEPT !.hash = Null])]

TamperBody(i) ==
  /\ tampered < MaxTamper
  /\ chain' = [chain EXCEPT ![i].body = Encode(TamperedData)]
  /\ tampered' = tampered + 1
  /\ call' = Call("tamperBody")
  /\ result' = Pending
  /\ UNCHANGED <<height, now, procs>>

TamperRehash(i) ==
  /\ tampered < MaxTamper
  /\ chain' = [chain EXCEPT ![i] = Rehash([@ EXCEPT !.body = Encode(TamperedData)])]
  /\ tampered' = tampered + 1
  /\ call' = Call("tamperRehash")
  /\ result' = Pending
  /\ UNCHANGED <<height, now, procs>>

NextT ==
  \/ Next
  \/ \E i \in 1..Len(chain) : TamperBody(i)
  \/ \E i \in 1..Len(chain) : TamperRehash(i)

SpecT == Init /\ [][NextT]_vars

(***************************************************************************)
(* The query surface, on ledgers built by signed submissions and direct    *)
(* appends, untampered or tampered.  TamperLink rewrites a block's         *)
(* previousBlockHash and leaves the stored hash.                           *)
(***************************************************************************)
TamperLink(i) ==
  /\ tampered < MaxTamper
  /\ chain' = [chain EXCEPT ![i].previousBlockHash = SHA256(NoBlock)]
  /\ tampered' = tampered + 1
  /\ call' = Call("tamperLink")
  /\ result' = Pending
  /\ UNCHANGED <<height, now, procs>>

SubmitInputsQ ==
  {in \in SubmitInputs : in[3] = Sign(in[1], in[2]) /\ MessageTime(in[2]) = 0}

NextQ ==
  \/ Tick
  \/ \E data \in AddBlockData : AddBlock(data)
  \/ \E in \in SubmitInputsQ : SubmitStar(in[1], in[2], in[3], in[4])
  \/ ValidateChain
  \/ \E hash \in HashInputs : GetBlockByHash(hash)
  \/ \E h \in HeightInputs : GetBlockByHeight(h)
  \/ \E address \in Addresses : GetStarsByWalletAddress(address)
  \/ \E i \in 1..Len(chain) : TamperBody(i)
  \/ \E i \in 1..Len(chain) : TamperRehash(i)
  \/ \E i \in 1..Len(chain) : TamperLink(i)

SpecQ == Init /\ [][NextQ]_vars

(***************************************************************************)
(* Calls in flight.  A call runs statement by statement; control returns   *)
(* to the event loop only at an await (YieldsAfter), where the             *)
(* continuations of other calls may run.  The statements of a call:        *)
(*   check     submitStar lines 157-181 (staleness, signature, new block)  *)
(*   read      _addBlock lines 73-94 (destructure, link, height, hash)     *)
(*   commit    _addBlock lines 97-98                                       *)
(*   validate  _addBlock line 101 (validateChain's executor), then await   *)
(*   settle    _addBlock lines 102-107; submitStar's await at line 184     *)
(*   resume    submitStar lines 184-189                                    *)
(*   forEach   getStarsByWalletAddress lines 246-259: every callback stops *)
(*             at its await on line 251, then resolve(stars)               *)
(*   decode    one callback's continuation, lines 251-255                  *)
(***************************************************************************)
Shared == [chain |-> chain, height |-> height, procs |-> procs]

Becomes(st) ==
  /\ chain' = st.chain
  /\ height' = st.height
  /\ procs' = st.procs
  /\ UNCHANGED <<now, call, result, tampered>>

Start(p) ==
  /\ Len(procs) < MaxProcs
  /\ Becomes(Run([Shared EXCEPT !.procs = Append(procs, p)], Len(procs) + 1, now))

StartSubmitStar(address, message, signature, star) ==
  Start([NoProc EXCEPT !.op = "submitStar", !.pc = "check", !.address = address,
                       !.message = message, !.signature = signature,
                       !.star = star])

StartAddBlock(data) ==
  Start([NoProc EXCEPT !.op = "addBlock", !.pc = "read", !.data = data])

StartGetStars(address) ==
  Start([NoProc EXCEPT !.op = "getStarsByWalletAddress", !.pc = "forEach",
                       !.address = address])

Resume(i) ==
  /\ procs[i].pc # "done"
  /\ Becomes(Run(Shared, i, now))

NextC ==
  \/ Tick
  \/ \E in \in SubmitInputs : StartSubmitStar(in[1], in[2], in[3], in[4])
  \/ \E data \in AddBlockData : StartAddBlock(data)
  \/ \E address \in Addresses : StartGetStars(address)
  \/ \E i \in 1..Len(procs) : Resume(i)

SpecC == Init /\ [][NextC]_vars

(***************************************************************************)
(* Shorthands for the last call and the last block.                        *)
(***************************************************************************)
LastBlock == chain[Len(chain)]

CallExpired == call.time - MessageTime(call.message) > Window

CallSignatureValid ==
  ~VerifyThrows(call.signature) /\ Verify(call.message, call.address, call.signature)

CallSignatureInvalid ==
  ~VerifyThrows(call.signature) /\ ~Verify(call.message, call.address, call.signature)

(***************************************************************************)
(* C1: a submitStar call that fails the staleness check (currentTime -     *)
(* embedded timestamp > 300) or the signature check (the verifier returns  *)
(* false) leaves the ledger as it was: no block appended, height unchanged.*)
(***************************************************************************)
C1_FailedSubmitLeavesLedger ==
  [][\A in \in SubmitInputs :
       (/\ SubmitStar(in[1], in[2], in[3], in[4])
        /\ \/ now - MessageTime(in[2]) > Window
           \/ (~VerifyThrows(in[3]) /\ ~Verify(in[2], in[1], in[3])))
       => (chain' = chain /\ height' = height)]_vars

(***************************************************************************)
(* C2: on a ledger built only by the append path (genesis bootstrap,       *)
(* _addBlock, submitStar), validateChain() resolves with an empty error    *)
(* list.                                                                   *)
(***************************************************************************)
C2_AppendPathValidates ==
  /\ validateChain(chain) = ResolveLog(<<>>)
  /\ call.op = "validateChain" => result = ResolveLog(<<>>)

C2_Witness ==
  /\ call.op = "validateChain"
  /\ result.status = "resolved"
  /\ Len(chain) >= 3
  /\ \E i \in 1..Len(chain) : Decode(chain[i].body) # GenesisData

(***************************************************************************)
(* C3: every block after the first carries the hash of the block before it *)
(* as previousBlockHash and a height one above it.                         *)
(***************************************************************************)
C3_Linked ==
  \A i \in 2..Len(chain) :
    /\ chain[i].previousBlockHash = chain[i - 1].hash
    /\ chain[i].height = chain[i - 1].height + 1

C3_Witness ==
  /\ Len(chain) >= 3
  /\ chain[3].previousBlockHash = chain[2].hash
  /\ chain[3].height = 2

C5_GenesisFirst ==
  /\ Len(chain) >= 1
  /\ chain[1].height = 0
  /\ chain[1].previousBlockHash = Null
  /\ Decode(chain[1].body) = GenesisData

C5_Witness ==
  /\ Len(chain) >= 2
  /\ call.op = "initializeChain"
  /\ chain[1].height = 0
  /\ chain[1].previousBlockHash = Null

(***************************************************************************)
(* C6: a submitStar call whose message is more than 300 seconds old is     *)
(* rejected with the expiry error whether its signature is valid or not:   *)
(* the staleness check comes first and its error is the one delivered.     *)
(***************************************************************************)
C6_ExpiredRejectedFirst ==
  (call.op = "submitStar" /\ CallExpired) => result = Reject("ExpiredRequest")

C6_Witness ==
  /\ call.op = "submitStar"
  /\ CallExpired
  /\ CallSignatureValid
  /\ result = Reject("ExpiredRequest")

(***************************************************************************)
(* C7: a submitStar call whose message is within the 300-second window and *)
(* whose signature the verifier reports as invalid is rejected with the    *)
(* invalid-signature error.                                                *)
(***************************************************************************)
C7_InvalidSignatureRejected ==
  (call.op = "submitStar" /\ ~CallExpired /\ CallSignatureInvalid)
    => result = Reject("InvalidSignature")

C7_Witness ==
  /\ call.op = "submitStar"
  /\ ~CallExpired
  /\ CallSignatureInvalid
  /\ result = Reject("InvalidSignature")

C9_TamperedPayloadReported ==
  call.op = "validateChain" =>
    \A i \in 1..Len(chain) :
      ~Validate(chain[i]) =>
        /\ result.status = "resolved"
        /\ \E k \in 1..Len(result.log) : result.log[k] = NotValid(chain[i].height)

(***************************************************************************)
(* C10 as claimed: _addBlock delivers the new block to its caller also     *)
(* when validateChain() returns a non-empty error list.                    *)
(***************************************************************************)
C10_AlwaysDeliversBlock ==
  (call.op = "addBlock" /\ validateChain(chain).status = "resolved")
    => result = ResolveBlock(LastBlock)

(***************************************************************************)
(* C10 as amended: _addBlock delivers the new block when validateChain()   *)
(* returns an empty error list; when it returns a non-empty list the       *)
(* caller's promise is rejected with that list.                            *)
(***************************************************************************)
C10_RejectsWithErrorList ==
  call.op = "addBlock" =>
    LET validateErrors == validateChain(chain) IN
      /\ (validateErrors.status = "resolved" /\ Len(validateErrors.log) > 0)
            => result = RejectLog(validateErrors.log)
      /\ (validateErrors.status = "resolved" /\ Len(validateErrors.log) = 0)
            => result = ResolveBlock(LastBlock)

C10_Witness ==
  /\ call.op = "addBlock"
  /\ result.status = "rejected"
  /\ result.kind = "errorLog"
  /\ Len(result.log) > 0
  /\ LastBlock.time = call.time
  /\ Decode(LastBlock.body) = call.data

(***************************************************************************)
(* C11: with any number of submitStar / _addBlock calls in flight and any  *)
(* interleaving of their continuations, every append reads the height and  *)
(* the last block and commits with no other commit in between: no two      *)
(* committed blocks share a height or a previousBlockHash, and every       *)
(* committed block is in the chain, linked to the block it was read after. *)
(***************************************************************************)
CommittedCalls == {i \in 1..Len(procs) : procs[i].committed}

C11_AppendsSerialized ==
  /\ \A i, j \in CommittedCalls :
       i # j =>
         /\ procs[i].block.height # procs[j].block.height
         /\ procs[i].block.previousBlockHash # procs[j].block.previousBlockHash
  /\ \A i \in CommittedCalls :
       \E k \in 2..Len(chain) :
         /\ chain[k] = procs[i].block
         /\ chain[k].height = k - 1
         /\ chain[k].previousBlockHash = chain[k - 1].hash

C11_Witness ==
  \E i, j \in CommittedCalls :
    /\ i # j
    /\ procs[i].op = "submitStar"
    /\ procs[j].op = "submitStar"
    /\ procs[i].pc = "resume"
    /\ procs[j].pc = "settle"
    /\ procs[i].block.height # procs[j].block.height

(***************************************************************************)
(* C12: the value getStarsByWalletAddress(addr) resolves with is, at the   *)
(* moment the promise resolves, exactly the {owner: addr, star} of every   *)
(* submitted block whose decoded address is addr.                          *)
(***************************************************************************)
RECURSIVE StarsOf(_, _, _)
StarsOf(c, address, i) ==
  IF i > Len(c) THEN <<>>
  ELSE LET data == Decode(c[i].body)
           rest == StarsOf(c, address, i + 1)
       IN  IF HasAddress(data) /\ data.address = address
           THEN <<[owner |-> address, star |-> data.star]>> \o rest
           ELSE rest

C12_StarsCompleteAtResolve ==
  \A i \in 1..Len(procs) :
    (procs[i].op = "getStarsByWalletAddress" /\ procs[i].promise.status = "resolved")
      => procs[i].promise.stars = StarsOf(procs[i].snapChain, procs[i].address, 1)

(***************************************************************************)
(* C13: getBlockByHash(h) resolves with the block of the chain whose hash  *)
(* is h when there is one and rejects with the not-found error when there  *)
(* is none; the caller gets exactly one of the two.                        *)
(***************************************************************************)
C13_ByHash ==
  call.op = "getBlockByHash" =>
    IF \E i \in 1..Len(chain) : chain[i].hash = call.hash
    THEN /\ result.status = "resolved"
         /\ result.kind = "block"
         /\ result.block.hash = call.hash
         /\ \E i \in 1..Len(chain) : chain[i] = result.block
    ELSE result = Reject("NotFound")

C13_Witness ==
  /\ call.op = "getBlockByHash"
  /\ Len(chain) >= 2
  /\ call.hash = chain[2].hash
  /\ result = ResolveBlock(chain[2])

(***************************************************************************)
(* C14: getBlockByHeight(h) resolves with the block at height h when       *)
(* 0 <= h <= current height, and resolves with null, never an error, when  *)
(* h is negative or at least the length of the chain.                      *)
(***************************************************************************)
C14_ByHeight ==
  call.op = "getBlockByHeight" =>
    IF 0 <= call.num /\ call.num <= height
    THEN /\ result = ResolveBlock(chain[call.num + 1])
         /\ result.block.height = call.num
    ELSE result = ResolveNull

C14_Witness ==
  /\ call.op = "getBlockByHeight"
  /\ Len(chain) >= 2
  /\ call.num = Len(chain)
  /\ result = ResolveNull

(***************************************************************************)
(* C15: the ledger is append-only: across every step the chain before is a *)
(* prefix of the chain after, an append adds exactly one block at the end, *)
(* and no field of a block already in the chain changes.                   *)
(***************************************************************************)
C15_AppendOnly ==
  [][/\ Len(chain') \in {Len(chain), Len(chain) + 1}
     /\ SubSeq(chain', 1, Len(chain)) = chain]_vars

C15_Witness ==
  /\ Len(chain) = 3
  /\ call.op = "submitStar"
  /\ Decode(chain[2].body) # GenesisData
  /\ chain[3].time > chain[2].time

(***************************************************************************)
(* C16: validateChain, getBlockByHash, getBlockByHeight and                *)
(* getStarsByWalletAddress leave the chain and the height as they were, on *)
(* a valid and on a tampered ledger.                                       *)
(***************************************************************************)
C16_QueriesLeaveLedger ==
  [][(\/ ValidateChain
      \/ \E hash \in HashInputs : GetBlockByHash(hash)
      \/ \E h \in HeightInputs : GetBlockByHeight(h)
      \/ \E address \in Addresses : GetStarsByWalletAddress(address))
     => (chain' = chain /\ height' = height)]_vars

C16_Witness ==
  /\ call.op = "validateChain"
  /\ result.status = "rejected"
  /\ tampered > 0
  /\ Len(chain) >= 2
  /\ height = Len(chain) - 1
  /\ \E i \in 1..Len(chain) : Decode(chain[i].body) = TamperedData

(***************************************************************************)
(* C17: for every block of every ledger built by the append path, the      *)
(* digest of the block's content with its hash field blanked is the stored *)
(* hash: the hash is computed in the append after height, time and         *)
(* previousBlockHash are set.                                              *)
(***************************************************************************)
C17_HashCoversContent ==
  \A i \in 1..Len(chain) :
    /\ chain[i].hash # Null
    /\ chain[i].hash = SHA256([chain[i] EXCEPT !.hash = Null])

C17_Witness ==
  /\ Len(chain) >= 2
  /\ LastBlock.time > 0
  /\ LastBlock.height = Len(chain) - 1
  /\ LastBlock.previousBlockHash = chain[Len(chain) - 1].hash
  /\ LastBlock.hash = SHA256([LastBlock EXCEPT !.hash = Null])

(***************************************************************************)
(* C18: append commits before it validates and never rolls back: when the  *)
(* validateChain() that follows an append returns a non-empty error list,  *)
(* the new block is the last block of the chain, the height stays          *)
(* incremented, and the caller is given the errors.                        *)
(***************************************************************************)
C18_CommitSurvivesErrors ==
  [][\A data \in AddBlockData :
       (/\ AddBlock(data)
        /\ result'.status = "rejected"
        /\ result'.kind = "errorLog")
       => /\ Len(chain') = Len(chain) + 1
          /\ SubSeq(chain', 1, Len(chain)) = chain
          /\ Decode(chain'[Len(chain')].body) = data
          /\ chain'[Len(chain')].height = height + 1
          /\ height' = height + 1
          /\ Len(result'.log) > 0
          /\ validateChain(chain') = ResolveLog(result'.log)]_vars

C18_Witness ==
  /\ call.op = "addBlock"
  /\ result.status = "rejected"
  /\ result.kind = "errorLog"
  /\ tampered > 0
  /\ height = Len(chain) - 1
  /\ LastBlock.height = height
  /\ validateChain(chain) = ResolveLog(result.log)
  /\ Len(result.log) > 0

(***************************************************************************)
(* C19: for every block r of height other than 0, validateChain() reports  *)
(* a linkage error naming r's height unless exactly one block of the chain *)
(* has r.previousBlockHash as its hash and that block's height is          *)
(* r.height - 1; it reports no linkage error for the block of height 0.    *)
(***************************************************************************)
Predecessors(c, r) == {j \in 1..Len(c) : c[j].hash = r.previousBlockHash}

LinkOk(c, r) ==
  /\ Cardinality(Predecessors(c, r)) = 1
  /\ \A j \in Predecessors(c, r) : c[j].height = r.height - 1

LinkageReported(h) ==
  /\ result.status = "resolved"
  /\ \E k \in 1..Len(result.log) : result.log[k] = ChainBroken(h)

C19_LinkageReported ==
  call.op = "validateChain" =>
    \A i \in 1..Len(chain) :
      IF chain[i].height = 0
      THEN ~LinkageReported(0)
      ELSE LinkageReported(chain[i].height) <=> ~LinkOk(chain, chain[i])

(***************************************************************************)
(* C20: the staleness check is a strict upper bound on a message's age: a  *)
(* submission whose elapsed time is exactly 300 seconds, or whose message  *)
(* is dated after the current time, is not rejected as expired and, with a *)
(* valid signature, is appended.                                           *)
(***************************************************************************)
CallElapsed == call.time - MessageTime(call.message)

====
